---- MODULE Spec2Model ----
(***************************************************************************)
(* State-machine model of SDRTranscriptionWorkflow (src/workflow.py) and   *)
(* its collaborators: a paramiko SSH/SFTP session, the Whisper engine and  *)
(* the summarization HTTP endpoint.  One workflow object is constructed    *)
(* and run_workflow is called on it up to MaxRuns times (Spec).  The stage *)
(* methods are also called on their own, once each: generate_summary on    *)
(* long transcripts (SpecSummarize), transcribe_wav on engine results      *)
(* (SpecTranscribe), and every stage method (SpecStages).                  *)
(***************************************************************************)
EXTENDS Integers, Sequences, FiniteSets, TLC

\* ------------------------------------------------------------------ bounds
MaxRuns == 2      \* calls of run_workflow on the one workflow object
MaxMtime == 2     \* modification times of remote files range over 1..MaxMtime

\* ------------------------------------------------------------- data domains
None == 0         \* self.ssh_client / self.sftp_client before assignment

\* A file name "stem.ext"; f.endswith('.wav') tests the extension.
FileName(stem, ext) == [stem |-> stem, ext |-> ext]
NoPath == FileName("", "")                       \* wav_path = None
RemoteNames == {FileName("a", "wav"), FileName("b", "wav"), FileName("n", "txt")}
EndsWithWav(f) == f.ext = "wav"

\* Remote directory contents: file name -> st_mtime.  Only the mtime of a
\* .wav file is ever read, so the other files keep mtime 1.
Remotes ==
    {d \in UNION {[S -> 1..MaxMtime] : S \in SUBSET RemoteNames} :
        \A f \in DOMAIN d : ~EndsWithWav(f) => d[f] = 1}

\* Segment times are seconds held as a whole number of ticks, fine enough
\* for the rounding of the ".3f" format to be computed; a text is the
\* sequence of its characters.
TicksPerSecond == 10000
TicksPerMilli == TicksPerSecond \div 1000

\* Behaviour of whisper_model.transcribe when called: it raises, or returns
\* an ordered segment list.
Seg(s, e, t) == [start |-> s, end |-> e, text |-> t]
EngineBehaviours ==
    { [raises |-> TRUE,  segments |-> <<>>],
      [raises |-> FALSE, segments |-> <<>>],
      [raises |-> FALSE, segments |-> <<Seg(0, 2 * TicksPerSecond, <<" ", "4", "7">>),
                                        Seg(5 * TicksPerSecond, 8 * TicksPerSecond,
                                            <<"o", "k">>)>>] }

\* A block of the response's "content" array: one with a "text" key, or
\* one without (a block of another type).
TextBlock(t) == [type |-> "text", text |-> t]
OtherBlock == [type |-> "tool_use"]

\* Behaviour of requests.post when called: it raises a RequestException
\* (fault), or returns a response with a status code and a JSON object body
\* with or without a "content" array of blocks.  The exception of a fault
\* carries no response (status 0: ConnectionError, Timeout) or the response
\* of that status (TooManyRedirects carries the last 302).
Api(fault, status, has, blocks) ==
    [fault |-> fault, status |-> status, hasContent |-> has, content |-> blocks]
ApiBehaviours ==
    { Api(TRUE, 0, FALSE, <<>>),
      Api(FALSE, 500, FALSE, <<>>),
      Api(FALSE, 200, FALSE, <<>>),
      Api(FALSE, 200, TRUE, <<>>),
      Api(FALSE, 200, TRUE, <<TextBlock("")>>),
      Api(FALSE, 200, TRUE, <<TextBlock("Incident 1: ...")>>) }

\* The methods class SDRTranscriptionWorkflow defines.
Methods == {"__init__", "connect_to_remote", "download_latest_wav",
            "archive_remote_recordings", "transcribe_wav", "generate_summary",
            "save_summary", "run_workflow"}

\* What connect_to_remote meets: the key file cannot be loaded, the SSH
\* connect call raises an error, open_sftp raises an error, all succeed, or
\* the SSH connect call is interrupted (KeyboardInterrupt).
ConnectOutcomes == {"key_error", "connect_error", "sftp_error", "ok", "interrupted"}
\* The call download_latest_wav makes that raises: chdir, listdir, the stat
\* of the first or of the second .wav file listed, get before it has
\* created the local file ("get_open") or after ("get"); "interrupt" is
\* chdir interrupted (KeyboardInterrupt).
DownloadFaults == {"none", "chdir", "listdir", "stat", "stat2", "get_open", "get",
                   "interrupt"}

\* The exception classes that do not derive from Exception: BaseException
\* and its subclasses outside Exception.  No "except Exception" clause
\* catches them.
NotExceptions == {"BaseException", "BaseExceptionGroup", "KeyboardInterrupt",
                  "SystemExit", "GeneratorExit", "CancelledError"}

\* A log record: its level and the call site that wrote it.
L(level, tag) == <<level, tag>>

\* The levels of the logging module and their numbers; the threshold is
\* one of the levels main.py offers (line 43).
LogLevels == {"debug", "info", "warning", "error", "critical"}
LevelNo(level) ==
    CASE level = "debug" -> 10
      [] level = "info" -> 20
      [] level = "warning" -> 30
      [] level = "error" -> 40
      [] level = "critical" -> 50
\* logger.setLevel(log_level) (logger.py line 24): a call of a logging
\* method writes a record only at or above the threshold.
IsEnabledFor(level, threshold) == LevelNo(level) >= LevelNo(threshold)

\* Local files: name -> content.  transcripts/ holds
\* <stem>_transcript.json and <stem>_transcript.txt, daily_summaries/ holds
\* summary_<YYYYMMDD>.md.
NoFiles == [n \in {} |-> ""]
TranscriptJson(stem) == FileName(stem, "_transcript.json")
TranscriptTxt(stem) == FileName(stem, "_transcript.txt")
SummaryFile(date) == FileName(date, "summary.md")
Today == "today"

VARIABLES
    pc,            \* position in run_workflow
    run,           \* number of run_workflow calls started
    cleanup,       \* self.cleanup
    log_level,     \* the threshold the logger was constructed with
    ssh_client,    \* self.ssh_client: None or the id of an SSHClient
    sftp_client,   \* self.sftp_client: None or the id of an SFTPClient
    sshOpen,       \* SSH clients connected and not yet closed
    sftpOpen,      \* SFTP channels opened and not yet closed
    sshCloseCount, \* close() invocations per SSH client, over all runs
    sftpCloseCount,\* close() invocations per SFTP channel, over all runs
    closes,        \* close() invocations of the current run, in order
    finalized,     \* times the finally block ran in the current run
    remote,        \* remote_dir: file name -> mtime
    recordings,    \* files downloaded into recordings/
    transcripts,   \* files written into transcripts/
    summaries,     \* summary files written into daily_summaries/
    engine,        \* how self.whisper_model.transcribe behaves when called
    api,           \* how the summarization endpoint behaves when called
    connectResult, \* outcome of connect_to_remote in this run
    wav_path,      \* run_workflow's local wav_path
    downloadFault, \* the call made to raise in the stage method
    exc,           \* exception in flight in run_workflow
    raised,        \* exception a stage raised into run_workflow in this run
    outcome,       \* how run_workflow ended: "normal" or "raised"
    log,           \* records the logger wrote in this run: <<level, tag>>
    trace,         \* orchestrator states passed in this run
    calls,         \* stage methods invoked by run_workflow in this run
    config,        \* the options given in the configuration dictionary
    archive,       \* the remote archive directory: present or not, its files
    op,            \* the stage method last called on its own
    arg,           \* the argument of that call, as a Value
    ret,           \* what it returned: <<>> for None, <<v>> for a Value v
    escaped,       \* the exception that left it, or "none"
    sftpOps,       \* the SFTP requests it issued, in order
    request,       \* the JSON payload it posted: <<>> for none, else <<p>>
    before         \* the remote, archive and summary directories when it was called

sessionVars == <<ssh_client, sftp_client, sshOpen, sftpOpen,
                 sshCloseCount, sftpCloseCount, closes, finalized>>
diskVars == <<remote, recordings, transcripts, summaries>>
envVars == <<cleanup, log_level, engine, api>>
runVars == <<pc, run, connectResult, downloadFault, wav_path, exc, raised,
             outcome, log, trace, calls>>
stageVars == <<config, archive, op, arg, ret, escaped, sftpOps, request, before>>
vars == <<sessionVars, diskVars, envVars, runVars, stageVars>>

\* What a stage method takes or returns: a local path, a transcript held
\* as runs of characters or as characters, or a summary text.
NoValue == [path |-> NoPath, runs |-> <<>>, chars |-> <<>>, summary |-> ""]
PathValue(p) == [NoValue EXCEPT !.path = p]
RunsValue(t) == [NoValue EXCEPT !.runs = t]
CharsValue(c) == [NoValue EXCEPT !.chars = c]
SummaryValue(t) == [NoValue EXCEPT !.summary = t]

NoArchive == [exists |-> FALSE, files |-> {}]
Snapshot(dir, arch, sums) == [remote |-> dir, archive |-> arch, summaries |-> sums]

\* No stage method has been called on its own.
NoStageCall ==
    /\ op = "none"
    /\ ret = <<>>
    /\ escaped = "none"
    /\ sftpOps = <<>>
    /\ request = <<>>

Handles == 1..MaxRuns

\* The records, of those the code passes to the logger, that are written.
Emitted(records) == {r \in records : IsEnabledFor(r[1], log_level)}

\* The cleanup flag of a run and how the engine and the endpoint would
\* behave in it, none of which a run comes to read (line 271 raises first):
\* no cleanup, two segments and a summary text; cleanup and the engine
\* raises; cleanup, two segments and a response of status 500.
RunScenarios ==
    {sc \in BOOLEAN \X EngineBehaviours \X ApiBehaviours :
        \/ ~sc[1] /\ sc[2].segments # <<>> /\ Len(sc[3].content) > 0
                  /\ sc[3].content[1].text # ""
        \/ sc[1] /\ sc[2].raises /\ sc[3].fault
        \/ sc[1] /\ sc[2].segments # <<>> /\ sc[3].status = 500}

\* State after SDRTranscriptionWorkflow(config, cleanup, log_level) was
\* constructed.
Init ==
    /\ pc = "idle"
    /\ run = 0
    /\ \E sc \in RunScenarios : cleanup = sc[1] /\ engine = sc[2] /\ api = sc[3]
    /\ log_level \in LogLevels
    /\ ssh_client = None
    /\ sftp_client = None
    /\ sshOpen = {}
    /\ sftpOpen = {}
    /\ sshCloseCount = [h \in Handles |-> 0]
    /\ sftpCloseCount = [h \in Handles |-> 0]
    /\ closes = <<>>
    /\ finalized = 0
    /\ remote \in Remotes
    /\ recordings = {}
    /\ transcripts = NoFiles
    /\ summaries = NoFiles
    /\ connectResult = "none"
    /\ downloadFault = "none"
    /\ wav_path = NoPath
    /\ exc = "none"
    /\ raised = "none"
    /\ outcome = "none"
    /\ log = {}
    /\ trace = <<>>
    /\ calls = <<>>
    /\ config = NoFiles
    /\ archive = NoArchive
    /\ arg = NoValue
    /\ before = Snapshot(remote, archive, summaries)
    /\ NoStageCall

\* run_workflow is entered: logs "Starting SDR Transcription Workflow".
StartRun ==
    /\ pc \in {"idle", "returned"}
    /\ run < MaxRuns
    /\ run' = run + 1
    /\ pc' = "connect"
    /\ connectResult' = "none"
    /\ downloadFault' = "none"
    /\ wav_path' = NoPath
    /\ exc' = "none"
    /\ raised' = "none"
    /\ outcome' = "none"
    /\ log' = Emitted({L("info", "starting_workflow")})
    /\ trace' = <<"INIT">>
    /\ calls' = <<>>
    /\ closes' = <<>>
    /\ finalized' = 0
    /\ UNCHANGED <<ssh_client, sftp_client, sshOpen, sftpOpen,
                   sshCloseCount, sftpCloseCount, diskVars, envVars>>
    /\ UNCHANGED stageVars

\* connect_to_remote: a new SSHClient is assigned to self.ssh_client before
\* the key is loaded; self.sftp_client is assigned only when open_sftp
\* succeeds.  Every failure is logged at error level and re-raised; an
\* interrupt passes the handler (line 106) unlogged.
ConnectToRemote(result) ==
    /\ pc = "connect"
    /\ calls' = Append(calls, "connect_to_remote")
    /\ connectResult' = result
    /\ ssh_client' = run
    /\ sshOpen' = IF result \in {"sftp_error", "ok"} THEN sshOpen \cup {run} ELSE sshOpen
    /\ IF result = "ok"
       THEN /\ sftp_client' = run
            /\ sftpOpen' = sftpOpen \cup {run}
            /\ log' = log \cup Emitted({L("info", "connected")})
            /\ trace' = Append(trace, "CONNECTED")
            /\ UNCHANGED <<exc, raised>>
            /\ pc' = "download"
       ELSE IF result = "interrupted"
       THEN /\ UNCHANGED <<sftp_client, sftpOpen, trace, log>>
            /\ exc' = "KeyboardInterrupt"
            /\ raised' = "KeyboardInterrupt"
            /\ pc' = "except"
       ELSE /\ UNCHANGED <<sftp_client, sftpOpen, trace>>
            /\ log' = log \cup Emitted({L("error", "ssh_connection_error"),
                                        L("debug", "traceback")})
            /\ exc' = "ConnectError"
            /\ raised' = "ConnectError"
            /\ pc' = "except"
    /\ UNCHANGED <<sshCloseCount, sftpCloseCount, closes, finalized,
                   diskVars, envVars, run, downloadFault, wav_path, outcome>>
    /\ UNCHANGED stageVars

\* sftp_client.listdir() returns the directory's entries in some order.
ListingOrders(dir) ==
    {s \in [1..Cardinality(DOMAIN dir) -> DOMAIN dir] :
        \A i, j \in 1..Cardinality(DOMAIN dir) : s[i] = s[j] => i = j}

\* wav_files = [f for f in listdir() if f.endswith('.wav')]
WavFiles(listing) == SelectSeq(listing, EndsWithWav)

\* Mutation: the first listed file is taken, whatever its mtime.
LatestWavFirstListed(wavs, mtime) == wavs[1]

\* max(wav_files, key=mtime): the first element, in list order, whose key is
\* not exceeded by any other.
LatestWav(wavs, mtime) ==
    wavs[CHOOSE i \in 1..Len(wavs) :
            /\ \A j \in 1..Len(wavs) : mtime[wavs[j]] <= mtime[wavs[i]]
            /\ \A j \in 1..(i - 1) : mtime[wavs[j]] < mtime[wavs[i]]]

\* Mutation: the emptiness test is dropped.
NoWavFilesUnchecked(wavs) == FALSE

\* An empty listing is reported before max() is reached (lines 124-126).
NoWavFiles(wavs) == wavs = <<>>

\* download_latest_wav returns None: run_workflow logs a warning and
\* returns through the finally block (lines 266-268).
DownloadNone(records) ==
    /\ wav_path' = NoPath
    /\ log' = log \cup Emitted(records \cup {L("warning", "no_wav_downloaded")})
    /\ pc' = "finally"
    /\ UNCHANGED <<trace, exc, raised>>

\* Whether the stat of max()'s key function raises: the first stat, or the
\* second when a second .wav file is listed.
StatRaises(fault, wavs) ==
    \/ fault = "stat"
    \/ fault = "stat2" /\ Len(wavs) >= 2

\* download_latest_wav and the test of its result in run_workflow.  fault
\* names the call that raises, listing the order listdir returns; stat and
\* get are called only if a .wav file is listed.  sftp_client.get creates
\* the local file before it asks for the remote one, so a transfer that
\* fails leaves a file, empty or incomplete, in recordings/.
DownloadLatestWav(fault, listing) ==
    /\ pc = "download"
    /\ calls' = Append(calls, "download_latest_wav")
    /\ LET wavs == WavFiles(listing)
           failed == {L("error", "wav_download_error"), L("debug", "traceback")}
       IN  IF fault = "interrupt"
           THEN /\ downloadFault' = fault
                /\ exc' = "KeyboardInterrupt"
                /\ raised' = "KeyboardInterrupt"
                /\ pc' = "except"
                /\ UNCHANGED <<wav_path, log, recordings, trace>>
           ELSE IF fault \in {"chdir", "listdir"}
           THEN DownloadNone(failed) /\ downloadFault' = fault /\ UNCHANGED recordings
           ELSE IF NoWavFiles(wavs)
           THEN /\ DownloadNone({L("warning", "no_wav_files")})
                /\ downloadFault' = "none" /\ UNCHANGED recordings
           ELSE IF wavs = <<>>         \* max() of an empty list raises
           THEN DownloadNone(failed) /\ downloadFault' = "max" /\ UNCHANGED recordings
           ELSE IF StatRaises(fault, wavs) \/ fault = "get_open"
           THEN DownloadNone(failed) /\ downloadFault' = fault /\ UNCHANGED recordings
           ELSE IF fault = "get"
           THEN /\ DownloadNone(failed) /\ downloadFault' = fault
                /\ recordings' = recordings \cup {LatestWav(wavs, remote)}
           ELSE /\ downloadFault' = "none"
                /\ wav_path' = LatestWav(wavs, remote)
                /\ recordings' = recordings \cup {LatestWav(wavs, remote)}
                /\ log' = log \cup Emitted({L("info", "downloaded")})
                /\ trace' = Append(trace, "FETCHED")
                /\ pc' = "clear"
                /\ UNCHANGED <<exc, raised>>
    /\ UNCHANGED <<sessionVars, remote, transcripts, summaries, envVars,
                   run, connectResult, outcome>>
    /\ UNCHANGED stageVars

\* Line 271 calls self.clear_remote_recordings(): the attribute lookup
\* raises AttributeError unless the class defines a method of that name.
ClearRemoteRecordings ==
    /\ pc = "clear"
    /\ IF "clear_remote_recordings" \in Methods
       THEN /\ calls' = Append(calls, "clear_remote_recordings")
            /\ pc' = "transcribe"
            /\ UNCHANGED <<exc, raised>>
       ELSE /\ exc' = "AttributeError"
            /\ raised' = "AttributeError"
            /\ pc' = "except"
            /\ UNCHANGED calls
    /\ UNCHANGED <<sessionVars, diskVars, envVars, run, connectResult,
                   downloadFault, wav_path, outcome, log, trace>>
    /\ UNCHANGED stageVars

\* Mutation: run_workflow has no top-level handler.
CaughtNever(e) == FALSE

\* "except Exception" at the top of run_workflow (line 287) catches what
\* derives from Exception.
Caught(e) == e \notin NotExceptions

\* Mutation: the top-level handler logs at error level.
WorkflowErrorAtErrorLevel == L("error", "workflow_error")

\* The record the top-level handler logs (line 288).
WorkflowErrorRecord == L("critical", "workflow_error")

\* The top-level handler (lines 287-289), if the exception in flight is one
\* it catches, then on to the finally block.
TopLevelExcept ==
    /\ pc = "except"
    /\ IF Caught(exc)
       THEN /\ log' = log \cup Emitted({WorkflowErrorRecord, L("debug", "traceback")})
            /\ exc' = "none"
       ELSE UNCHANGED <<log, exc>>
    /\ pc' = "finally"
    /\ UNCHANGED <<sessionVars, diskVars, envVars, run, connectResult,
                   downloadFault, wav_path, raised, outcome, trace, calls>>
    /\ UNCHANGED stageVars

\* Mutation: finalization closes the SSH client only.
ClosesSftpNever(client) == FALSE

\* Mutation: the SSH client is closed only if it was connected.
ClosesSshIfConnected(client) == client \in sshOpen

\* "if self.sftp_client:" and "if self.ssh_client:" (lines 294, 296).
ClosesSftp(client) == client # None
ClosesSsh(client) == client # None

Close(kind, h, ok) == [kind |-> kind, handle |-> h, ok |-> ok]

\* The finally block (lines 291-300), and the return to the caller or the
\* exception in flight leaving run_workflow.  The two
\* close() calls share one try: when the first raises, the second is
\* skipped and an error is logged.  sftpOk / sshOk tell whether the
\* respective close() returns (TRUE) or raises (FALSE).
Finalize(sftpOk, sshOk) ==
    /\ pc = "finally"
    /\ LET doSftp == ClosesSftp(sftp_client)
           sftpRaised == doSftp /\ ~sftpOk
           doSsh == ~sftpRaised /\ ClosesSsh(ssh_client)
           sshRaised == doSsh /\ ~sshOk
       IN  /\ closes' = closes
                 \o (IF doSftp THEN <<Close("sftp", sftp_client, sftpOk)>> ELSE <<>>)
                 \o (IF doSsh THEN <<Close("ssh", ssh_client, sshOk)>> ELSE <<>>)
           /\ sftpCloseCount' =
                 IF doSftp
                 THEN [sftpCloseCount EXCEPT ![sftp_client] = @ + 1]
                 ELSE sftpCloseCount
           /\ sshCloseCount' =
                 IF doSsh
                 THEN [sshCloseCount EXCEPT ![ssh_client] = @ + 1]
                 ELSE sshCloseCount
           /\ sftpOpen' = IF doSftp /\ sftpOk THEN sftpOpen \ {sftp_client} ELSE sftpOpen
           /\ sshOpen' = IF doSsh /\ sshOk THEN sshOpen \ {ssh_client} ELSE sshOpen
           /\ log' = log \cup Emitted(
                 IF sftpRaised \/ sshRaised
                 THEN {L("error", "closing_error")}
                 ELSE {L("info", "connections_closed")})
    /\ finalized' = finalized + 1
    /\ trace' = Append(trace, "CLOSED")
    /\ outcome' = IF exc = "none" THEN "normal" ELSE "raised"
    /\ pc' = "returned"
    /\ UNCHANGED <<ssh_client, sftp_client, diskVars, envVars, run,
                   connectResult, downloadFault, wav_path, exc, raised, calls>>
    /\ UNCHANGED stageVars

Next ==
    \/ StartRun
    \/ \E r \in ConnectOutcomes : ConnectToRemote(r)
    \/ \E f \in DownloadFaults, l \in ListingOrders(remote) : DownloadLatestWav(f, l)
    \/ ClearRemoteRecordings
    \/ TopLevelExcept
    \/ \E a, b \in BOOLEAN : Finalize(a, b)

Spec == Init /\ [][Next]_vars

\* ------------------------------------------------- stage methods on their own
\* The variables a stage method called on its own leaves alone.
workflowVars == <<sessionVars, envVars, pc, run, connectResult,
                  wav_path, exc, raised, outcome, trace, calls>>

\* ---------------------------------------------- ClaudeHandler.generate_summary
MaxExcess == 2    \* transcripts are up to MaxTranscriptLength + MaxExcess long
MaxBlocks == 2    \* blocks in a response's "content" array

\* max_transcript_length (claude_handler.py line 48).
MaxTranscriptLength == 100000
\* The default of the temperature option, in tenths (0.7).
DefaultTemperature == 7

\* config.get(key, default)
ConfigGet(cfg, key, default) == IF key \in DOMAIN cfg THEN cfg[key] ELSE default

\* self.temperature of the handler the workflow constructs (line 78).
SelfTemperature == ConfigGet(config, "temperature", DefaultTemperature)

\* The configurations: the temperature option absent, or given in tenths.
TemperatureValues == {0, DefaultTemperature, 10}
Configs == {NoFiles} \cup {[k \in {"temperature"} |-> t] : t \in TemperatureValues}

\* A long text is held as its runs of equal characters, in order.
Run(c, n) == [ch |-> c, n |-> n]
RECURSIVE Length(_)
Length(t) == IF t = <<>> THEN 0 ELSE t[1].n + Length(Tail(t))

\* Mutation: the slice keeps the whole text.
TakeAll(t, m) == t

\* t[:m] for m >= 0.
RECURSIVE Take(_, _)
Take(t, m) ==
    IF t = <<>> \/ m = 0 THEN <<>>
    ELSE IF t[1].n <= m THEN <<t[1]>> \o Take(Tail(t), m - t[1].n)
    ELSE <<Run(t[1].ch, m)>>

\* A transcript of n characters: "x" up to the length limit, "y" beyond.
TextOfLength(n) ==
    (IF n > 0
     THEN <<Run("x", IF n > MaxTranscriptLength THEN MaxTranscriptLength ELSE n)>>
     ELSE <<>>)
    \o (IF n > MaxTranscriptLength THEN <<Run("y", n - MaxTranscriptLength)>> ELSE <<>>)
TranscriptLengths ==
    {0, 1, MaxTranscriptLength - 1}
        \cup {MaxTranscriptLength + k : k \in 0..MaxExcess}
LongTranscripts == {TextOfLength(n) : n \in TranscriptLengths}

\* Mutation: the temperature is left out of the payload when it is the
\* default.
PayloadOmitsDefault(content, temperature) ==
    IF temperature = DefaultTemperature
    THEN [model |-> "claude_model", system |-> "system_prompt",
          messages |-> <<[role |-> "user", content |-> content]>>,
          max_tokens |-> "max_tokens"]
    ELSE [model |-> "claude_model", system |-> "system_prompt",
          messages |-> <<[role |-> "user", content |-> content]>>,
          max_tokens |-> "max_tokens", temperature |-> temperature]

\* The request payload (lines 75-83).
Payload(content, temperature) ==
    [model |-> "claude_model", system |-> "system_prompt",
     messages |-> <<[role |-> "user", content |-> content]>>,
     max_tokens |-> "max_tokens", temperature |-> temperature]

\* response.raise_for_status() raises for a 4xx or 5xx status.
RaiseForStatus(status) == 400 <= status /\ status < 600

\* "hasattr(e, 'response') and e.response" (line 116) for the
\* RequestException caught: it carries a response, and the response is
\* truthy, which a Response is when raise_for_status() would not raise.
\* The HTTPError of raise_for_status() carries the response it was called
\* on.
CarriesOkResponse(response) ==
    /\ response.status # 0
    /\ ~RaiseForStatus(response.status)

\* Mutation: the last block is read.
LastBlock(content) == content[Len(content)]

\* response_data["content"][0]
FirstBlock(content) == content[1]

Statuses == {200, 201, 302, 404, 500}
Blocks == {TextBlock(""), TextBlock("Incident 1"), TextBlock("Incident 2"), OtherBlock}
BlockLists == UNION {[1..n -> Blocks] : n \in 0..MaxBlocks}
\* requests.post follows redirects without end and raises TooManyRedirects.
RedirectLoop == Api(TRUE, 302, FALSE, <<>>)
Responses ==
    {Api(TRUE, 0, FALSE, <<>>), RedirectLoop}
        \cup {Api(FALSE, st, FALSE, <<>>) : st \in Statuses}
        \cup {Api(FALSE, st, TRUE, b) : st \in Statuses, b \in BlockLists}

\* generate_summary(transcript) with the endpoint behaving as response, or
\* with requests.post interrupted (KeyboardInterrupt), which neither
\* handler (lines 114, 120) catches.
GenerateSummary(transcript, response, interrupted) ==
    LET truncate == Length(transcript) > MaxTranscriptLength
        content == IF truncate THEN Take(transcript, MaxTranscriptLength)
                   ELSE transcript
        sent == {L("info", "generating_summary"), L("debug", "making_api_request")}
                    \cup (IF truncate THEN {L("warning", "truncating_transcript")}
                          ELSE {})
    IN  /\ op' = "generate_summary"
        /\ request' = <<Payload(content, SelfTemperature)>>
        /\ sftpOps' = <<>>
        /\ IF interrupted
           THEN /\ ret' = <<>>
                /\ escaped' = "KeyboardInterrupt"
                /\ log' = Emitted(sent)
           ELSE IF response.fault \/ RaiseForStatus(response.status)
           THEN /\ ret' = <<>>
                /\ escaped' = "none"
                /\ log' = Emitted(sent \cup {L("error", "claude_api_request_error")}
                                   \cup (IF CarriesOkResponse(response)
                                         THEN {L("debug", "response_status"),
                                               L("debug", "response_body")}
                                         ELSE {}))
           ELSE IF response.hasContent /\ Len(response.content) > 0
           THEN IF "text" \in DOMAIN FirstBlock(response.content)
                THEN /\ ret' = <<SummaryValue(FirstBlock(response.content).text)>>
                     /\ escaped' = "none"
                     /\ log' = Emitted(sent \cup {L("info", "summary_generated")})
                ELSE /\ ret' = <<>>      \* KeyError
                     /\ escaped' = "none"
                     /\ log' = Emitted(sent \cup {L("error", "summary_generation_error"),
                                                  L("debug", "traceback")})
           ELSE /\ ret' = <<>>
                /\ escaped' = "none"
                /\ log' = Emitted(sent \cup {L("error", "unexpected_api_response")})
        /\ UNCHANGED <<config, archive, before, diskVars>>

\* generate_summary applied once to a transcript, under a configuration and
\* an endpoint behaviour drawn at the start.
InitSummarize ==
    /\ pc = "idle"
    /\ run = 0
    /\ cleanup = FALSE
    /\ log_level \in LogLevels
    /\ ssh_client = None
    /\ sftp_client = None
    /\ sshOpen = {}
    /\ sftpOpen = {}
    /\ sshCloseCount = [h \in Handles |-> 0]
    /\ sftpCloseCount = [h \in Handles |-> 0]
    /\ closes = <<>>
    /\ finalized = 0
    /\ remote = NoFiles
    /\ recordings = {}
    /\ transcripts = NoFiles
    /\ summaries = NoFiles
    /\ engine \in {e \in EngineBehaviours : e.raises}
    /\ api \in Responses
    /\ connectResult = "none"
    /\ downloadFault = "none"
    /\ wav_path = NoPath
    /\ exc = "none"
    /\ raised = "none"
    /\ outcome = "none"
    /\ log = {}
    /\ trace = <<>>
    /\ calls = <<>>
    /\ config \in Configs
    /\ archive = NoArchive
    /\ arg \in {RunsValue(t) : t \in LongTranscripts}
    /\ before = Snapshot(remote, archive, summaries)
    /\ NoStageCall

CallGenerateSummary(interrupted) ==
    /\ op = "none"
    /\ downloadFault' = IF interrupted THEN "interrupt" ELSE "none"
    /\ GenerateSummary(arg.runs, api, interrupted)
    /\ UNCHANGED <<workflowVars, arg>>

NextSummarize == \E i \in BOOLEAN : CallGenerateSummary(i)

SpecSummarize == InitSummarize /\ [][NextSummarize]_vars

\* ------------------------------------------------------------ transcribe_wav
MaxSegs == 2      \* segments in an engine result

Digit(d) == <<"0", "1", "2", "3", "4", "5", "6", "7", "8", "9">>[d + 1]
RECURSIVE Digits(_)
Digits(n) == IF n < 10 THEN <<Digit(n)>> ELSE Digits(n \div 10) \o <<Digit(n % 10)>>

\* Mutation: no padding.
ZeroPadNone(str, width) == str

\* The "0" flag of a format spec: zeros on the left up to the width.
RECURSIVE ZeroPad(_, _)
ZeroPad(str, width) ==
    IF Len(str) >= width THEN str ELSE ZeroPad(<<"0">> \o str, width)

\* f"{n:02d}" for n >= 0.
Format02d(n) == ZeroPad(Digits(n), 2)

\* A segment time is a Python float.  Float(t) is the double nearest to
\* t ticks: the ticks, and the sign of what the double differs from them by
\* (0 when the double is exact).  The quotient of the ticks by
\* TicksPerSecond is shifted left, ChunkBits bits at a time, until it has
\* the bits of a double's significand, then rounded to nearest, ties to
\* even.
DoubleBits == 53
ChunkBits == 8
Pow2(n) == <<1, 2, 4, 8, 16, 32, 64, 128, 256>>[n + 1]
RECURSIVE BitLength(_)
BitLength(q) == IF q = 0 THEN 0 ELSE 1 + BitLength(q \div 2)
RECURSIVE SignificandRest(_, _, _)
SignificandRest(r, bits, last) ==
    IF bits >= DoubleBits THEN [rest |-> r, last |-> last]
    ELSE LET n == IF bits = 0 \/ bits + ChunkBits <= DoubleBits
                  THEN ChunkBits ELSE DoubleBits - bits
             chunk == (r * Pow2(n)) \div TicksPerSecond
         IN  SignificandRest((r * Pow2(n)) % TicksPerSecond,
                             IF bits > 0 THEN bits + n ELSE BitLength(chunk),
                             chunk % 2)
DoubleError(t) ==
    IF t % TicksPerSecond = 0 THEN 0
    ELSE LET q == t \div TicksPerSecond
             s == SignificandRest(t % TicksPerSecond, BitLength(q), q % 2)
         IN  IF 2 * s.rest > TicksPerSecond THEN 1
             ELSE IF 2 * s.rest < TicksPerSecond THEN (IF s.rest = 0 THEN 0 ELSE -1)
             ELSE IF s.last = 1 THEN 1 ELSE -1
Float(t) == [ticks |-> t, err |-> DoubleError(t)]

\* x // 60 and x % 60 of a float x >= 0; the remainder is exact, so it
\* differs from its ticks as x does.
FloorDiv60(x) == x.ticks \div (60 * TicksPerSecond)
Mod60(x) == [ticks |-> x.ticks % (60 * TicksPerSecond), err |-> x.err]

\* The milliseconds the ".3f" format prints for a float: the number nearest
\* to the float's exact value, which decides a time halfway between two
\* milliseconds by the side its double lies on, and by the even neighbour
\* when the double is exactly halfway.
RoundedMillis(x) ==
    LET whole == x.ticks \div TicksPerMilli
        part == 2 * (x.ticks % TicksPerMilli)
    IN  IF part > TicksPerMilli \/ (part = TicksPerMilli /\ x.err > 0) THEN whole + 1
        ELSE IF part < TicksPerMilli \/ x.err < 0 THEN whole
        ELSE whole + (whole % 2)

\* f"{x:06.3f}" for a float x >= 0.
Format063f(x) ==
    LET millis == RoundedMillis(x)
    IN  ZeroPad(Digits(millis \div 1000) \o <<".">> \o ZeroPad(Digits(millis % 1000), 3), 6)

\* f"{int(t//60):02d}:{t%60:06.3f}" (lines 200-201) for the float of ticks.
FormatTime(ticks) ==
    Format02d(FloorDiv60(Float(ticks))) \o <<":">> \o Format063f(Mod60(Float(ticks)))

\* The characters str.strip() removes: those str.isspace() holds of.  A
\* character is a one-character string; one that a string of this language
\* cannot hold is named by its code point.
Whitespace ==
    {"\t", "\n", "U+000B", "\f", "\r", "U+001C", "U+001D", "U+001E", "U+001F",
     " ", "U+0085", "U+00A0", "U+1680", "U+2000", "U+2001", "U+2002", "U+2003",
     "U+2004", "U+2005", "U+2006", "U+2007", "U+2008", "U+2009", "U+200A",
     "U+2028", "U+2029", "U+202F", "U+205F", "U+3000"}
IsSpace(c) == c \in Whitespace
RECURSIVE LStrip(_)
LStrip(str) == IF str # <<>> /\ IsSpace(Head(str)) THEN LStrip(Tail(str)) ELSE str
RECURSIVE RStrip(_)
RStrip(str) ==
    IF str # <<>> /\ IsSpace(str[Len(str)])
    THEN RStrip(SubSeq(str, 1, Len(str) - 1)) ELSE str
\* str.strip()
Strip(str) == RStrip(LStrip(str))

\* The line of one segment (lines 194-204).
FormatSegment(seg) ==
    <<"[">> \o FormatTime(seg.start) \o <<" ", "-", "-", ">", " ">>
        \o FormatTime(seg.end) \o <<"]", " ", " ">> \o Strip(seg.text) \o <<"\n">>

\* formatted_transcript after the loop over result['segments'].
RECURSIVE FormattedTranscript(_)
FormattedTranscript(segments) ==
    IF segments = <<>> THEN <<>>
    ELSE FormatSegment(Head(segments)) \o FormattedTranscript(Tail(segments))

\* Path.stem of a file name: the name without its last suffix; a name that
\* only begins with a dot (".wav") has no suffix and is its own stem.
PathStem(f) ==
    IF f.stem # "" THEN f.stem
    ELSE IF f.ext # "" THEN "." \o f.ext
    ELSE ""

\* What a transcript file holds: all of what was written to it, or, when
\* the write raised after open(path, 'w') had created or emptied the file,
\* nothing or a beginning of it.
FileWritten(data) == [whole |-> TRUE, data |-> data]
FileCut == [whole |-> FALSE, data |-> <<>>]

\* The step of transcribe_wav that raises: the open or the write of the
\* .json file (lines 208, 209), the open or the write of the .txt file
\* (lines 213, 214); "interrupt" is the engine call interrupted
\* (KeyboardInterrupt).
TranscribeFaults == {"none", "json_open", "json_write", "txt_open", "txt_write",
                     "interrupt"}

\* transcribe_wav(path) with the engine behaving as result.
TranscribeWav(path, result, fault) ==
    LET formatted == FormattedTranscript(result.segments)
        started == {L("info", "starting_transcription")}
        failed == started \cup {L("error", "transcription_error"),
                                L("debug", "traceback")}
        json == TranscriptJson(PathStem(path))
        txt == TranscriptTxt(PathStem(path))
        with(files, name, content) ==
            [f \in DOMAIN files \cup {name} |->
                IF f = name THEN content ELSE files[f]]
        withJson == with(transcripts, json, FileWritten(result.segments))
    IN  /\ op' = "transcribe_wav"
        /\ sftpOps' = <<>>
        /\ request' = <<>>
        /\ ret' = IF fault = "none" /\ ~result.raises
                  THEN <<CharsValue(formatted)>> ELSE <<>>
        /\ escaped' = IF fault = "interrupt" THEN "KeyboardInterrupt" ELSE "none"
        /\ log' = Emitted(IF fault = "interrupt" THEN started
                          ELSE IF fault = "none" /\ ~result.raises
                          THEN started \cup {L("info", "transcription_complete")}
                          ELSE failed)
        /\ transcripts' =
              IF fault = "interrupt" \/ result.raises \/ fault = "json_open"
              THEN transcripts
              ELSE IF fault = "json_write" THEN with(transcripts, json, FileCut)
              ELSE IF fault = "txt_open" THEN withJson
              ELSE IF fault = "txt_write" THEN with(withJson, txt, FileCut)
              ELSE with(withJson, txt, FileWritten(formatted))
        /\ UNCHANGED <<config, archive, before, remote, recordings, summaries>>

\* The segments the engine returns: <<start, end>> in ticks and the text.
\* The times hold 0.0004, 0.0006, 59.9996, 63.25, 125, 3599.9994, 3600 and
\* 6000 s, and times halfway between two milliseconds whose doubles lie
\* above (0.0005, 60.0005 s), below (0.0045, 59.9995 s) and on them
\* (0.0625, 0.1875 s).
TimePairs ==
    { <<0, 6>>, <<4, 599996>>, <<632500, 1250000>>,
      <<35999994, 36000000>>, <<1250000, 60000000>>,
      <<5, 45>>, <<625, 1875>>, <<599995, 600005>> }
\* The texts a time pair is drawn with: empty, plain, in spaces, and in
\* whitespace of other kinds.
TextOf(p) ==
    CASE p \in {<<0, 6>>, <<5, 45>>} -> {<<>>, <<"o", "k">>}
      [] p \in {<<4, 599996>>, <<1250000, 60000000>>} -> {<<" ", "4", "7", " ">>}
      [] p \in {<<632500, 1250000>>, <<35999994, 36000000>>} -> {<<"o", "k">>}
      [] OTHER -> {<<"\r", "U+00A0", "o", "k", "\f", "U+2028">>}
Segments == UNION {{Seg(p[1], p[2], t) : t \in TextOf(p)} : p \in TimePairs}
EngineResults ==
    {[raises |-> TRUE, segments |-> <<>>]}
        \cup {[raises |-> FALSE, segments |-> sg] :
                sg \in UNION {[1..n -> Segments] : n \in 0..MaxSegs}}

\* transcribe_wav applied once to a downloaded recording, a.wav or .wav,
\* the engine's behaviour drawn at the start.
InitTranscribe ==
    /\ pc = "idle"
    /\ run = 0
    /\ cleanup = FALSE
    /\ log_level \in LogLevels
    /\ ssh_client = None
    /\ sftp_client = None
    /\ sshOpen = {}
    /\ sftpOpen = {}
    /\ sshCloseCount = [h \in Handles |-> 0]
    /\ sftpCloseCount = [h \in Handles |-> 0]
    /\ closes = <<>>
    /\ finalized = 0
    /\ remote = NoFiles
    /\ recordings = {FileName("a", "wav"), FileName("", "wav")}
    /\ transcripts = NoFiles
    /\ summaries = NoFiles
    /\ engine \in EngineResults
    /\ api \in {a \in ApiBehaviours : a.fault}
    /\ connectResult = "none"
    /\ downloadFault = "none"
    /\ wav_path = NoPath
    /\ exc = "none"
    /\ raised = "none"
    /\ outcome = "none"
    /\ log = {}
    /\ trace = <<>>
    /\ calls = <<>>
    /\ config = NoFiles
    /\ archive = NoArchive
    /\ arg \in {PathValue(f) : f \in recordings}
    /\ before = Snapshot(remote, archive, summaries)
    /\ NoStageCall

CallTranscribeWav(fault) ==
    /\ op = "none"
    /\ downloadFault' = fault
    /\ TranscribeWav(arg.path, engine, fault)
    /\ UNCHANGED <<workflowVars, arg>>

NextTranscribe == \E f \in TranscribeFaults : CallTranscribeWav(f)

SpecTranscribe == InitTranscribe /\ [][NextTranscribe]_vars

\* ------------------------------------------- each stage method called once
\* Mutation: connect_to_remote swallows its failures.
ConnectSwallows == FALSE

\* The "raise" that ends connect_to_remote's handler (line 109).
ConnectReraises == TRUE

\* connect_to_remote() called on its own.  Every call constructs a new
\* SSHClient (line 87), whatever self.ssh_client held: the clients are
\* numbered as they are constructed, so the new one is the successor of
\* the last, and a session that was open stays open.
StageConnect(result) ==
    /\ op = "none"
    /\ op' = "connect_to_remote"
    /\ connectResult' = result
    /\ ssh_client' = ssh_client + 1
    /\ sshOpen' = IF result \in {"sftp_error", "ok"}
                  THEN sshOpen \cup {ssh_client + 1} ELSE sshOpen
    /\ ret' = <<>>
    /\ sftpOps' = <<>>
    /\ IF result = "ok"
       THEN /\ sftp_client' = ssh_client + 1
            /\ sftpOpen' = sftpOpen \cup {ssh_client + 1}
            /\ log' = Emitted({L("info", "connected")})
            /\ escaped' = "none"
       ELSE IF result = "interrupted"
       THEN /\ UNCHANGED <<sftp_client, sftpOpen>>
            /\ log' = {}
            /\ escaped' = "KeyboardInterrupt"
       ELSE /\ UNCHANGED <<sftp_client, sftpOpen>>
            /\ log' = Emitted({L("error", "ssh_connection_error"),
                               L("debug", "traceback")})
            /\ escaped' = IF ConnectReraises THEN "ConnectError" ELSE "none"
    /\ UNCHANGED <<sshCloseCount, sftpCloseCount, closes, finalized, diskVars,
                   envVars, pc, run, downloadFault, wav_path, exc, raised,
                   outcome, trace, calls, config, archive, arg, request, before>>

\* One call of a method of the SFTP client: its name and the file it
\* names, if any.
SftpOp(name, file) == [name |-> name, file |-> file]

\* download_latest_wav() called on its own.  Without an SFTP client the
\* first call raises AttributeError, which the handler catches.  max()
\* issues a stat for each .wav file in the order listed, up to the one that
\* raises.
StageDownload(fault, listing) ==
    /\ op = "none"
    /\ op' = "download_latest_wav"
    /\ downloadFault' = fault
    /\ LET wavs == WavFiles(listing)
           failed == Emitted({L("error", "wav_download_error"), L("debug", "traceback")})
           chdir == <<SftpOp("chdir", NoPath)>>
           listed == chdir \o <<SftpOp("listdir", NoPath)>>
           stats(n) == [i \in 1..n |-> SftpOp("stat", wavs[i])]
           fetched == listed \o stats(Len(wavs))
                          \o <<SftpOp("get", LatestWav(wavs, remote))>>
       IN  IF sftp_client = None
           THEN /\ ret' = <<>> /\ log' = failed /\ sftpOps' = <<>>
                /\ escaped' = "none"
                /\ UNCHANGED recordings
           ELSE IF fault = "interrupt"
           THEN /\ ret' = <<>> /\ log' = {} /\ sftpOps' = chdir
                /\ escaped' = "KeyboardInterrupt"
                /\ UNCHANGED recordings
           ELSE IF fault = "chdir"
           THEN /\ ret' = <<>> /\ log' = failed /\ sftpOps' = chdir
                /\ escaped' = "none"
                /\ UNCHANGED recordings
           ELSE IF fault = "listdir"
           THEN /\ ret' = <<>> /\ log' = failed /\ sftpOps' = listed
                /\ escaped' = "none"
                /\ UNCHANGED recordings
           ELSE IF NoWavFiles(wavs)
           THEN /\ ret' = <<>> /\ log' = Emitted({L("warning", "no_wav_files")})
                /\ sftpOps' = listed
                /\ escaped' = "none"
                /\ UNCHANGED recordings
           ELSE IF wavs = <<>>         \* max() of an empty list raises
           THEN /\ ret' = <<>> /\ log' = failed /\ sftpOps' = listed
                /\ escaped' = "none"
                /\ UNCHANGED recordings
           ELSE IF StatRaises(fault, wavs)
           THEN /\ ret' = <<>> /\ log' = failed
                /\ sftpOps' = listed \o stats(IF fault = "stat" THEN 1 ELSE 2)
                /\ escaped' = "none"
                /\ UNCHANGED recordings
           ELSE IF fault = "get_open"
           THEN /\ ret' = <<>> /\ log' = failed /\ sftpOps' = fetched
                /\ escaped' = "none"
                /\ UNCHANGED recordings
           ELSE IF fault = "get"
           THEN /\ ret' = <<>> /\ log' = failed /\ sftpOps' = fetched
                /\ escaped' = "none"
                /\ recordings' = recordings \cup {LatestWav(wavs, remote)}
           ELSE /\ ret' = <<PathValue(LatestWav(wavs, remote))>>
                /\ recordings' = recordings \cup {LatestWav(wavs, remote)}
                /\ log' = Emitted({L("info", "downloaded")})
                /\ sftpOps' = fetched
                /\ escaped' = "none"
    /\ UNCHANGED <<sessionVars, envVars, pc, run, connectResult,
                   wav_path, exc, raised, outcome, trace, calls, config,
                   archive, arg, request, before, remote, transcripts, summaries>>

\* Mutation: the cleanup flag is not consulted.
SkipsArchiveNever(flag) == FALSE

\* "if not self.cleanup: return" (lines 151-152).
SkipsArchive(flag) == ~flag

\* Mutation: every failure of the existence check is taken for absence.
StatMeansAbsentAlways(fault, arch) == ~arch.exists \/ fault = "stat"

\* stat(archive_dir) raises FileNotFoundError, the one exception the inner
\* handler catches, exactly when the directory is absent.
StatMeansAbsent(fault, arch) == ~arch.exists /\ fault # "stat"

ArchiveFaults == {"none", "stat", "mkdir", "chdir", "listdir", "rename1", "rename2",
                  "interrupt"}

\* The renames the loop of lines 169-173 completes: all of them, or those
\* before the one that raises.
RenamesDone(fault, wavs) ==
    IF fault = "rename1" THEN 0
    ELSE IF fault = "rename2" /\ Len(wavs) >= 2 THEN 1
    ELSE Len(wavs)
RenameRaises(fault, wavs) ==
    \/ fault = "rename1" /\ Len(wavs) >= 1
    \/ fault = "rename2" /\ Len(wavs) >= 2

\* archive_remote_recordings() called on its own.  fault names the SFTP
\* call that raises when made ("stat": the existence check fails otherwise
\* than by "not found"; "interrupt": the existence check is interrupted by
\* KeyboardInterrupt, which neither handler catches); listing is the order
\* listdir returns.
ArchiveRemoteRecordings(fault, listing) ==
    LET wavs == WavFiles(listing)
        failed == {L("error", "archiving_error"), L("debug", "traceback")}
        stat == <<SftpOp("stat", NoPath)>>
        absent == StatMeansAbsent(fault, archive)
        checked == stat \o (IF absent THEN <<SftpOp("mkdir", NoPath)>> ELSE <<>>)
        made == IF absent THEN {L("info", "created_archive_directory")} ELSE {}
        ensured == [exists |-> TRUE, files |-> archive.files]
        done == RenamesDone(fault, wavs)
        moved == {wavs[i] : i \in 1..done}
        renames == [i \in 1..(IF RenameRaises(fault, wavs) THEN done + 1 ELSE done) |->
                       SftpOp("rename", wavs[i])]
    IN  /\ op' = "archive_remote_recordings"
        /\ ret' = <<>>
        /\ before' = Snapshot(remote, archive, summaries)
        /\ IF SkipsArchive(cleanup)
           THEN /\ sftpOps' = <<>> /\ log' = {} /\ escaped' = "none"
                /\ UNCHANGED <<remote, archive>>
           ELSE IF sftp_client = None
           THEN /\ sftpOps' = <<>> /\ log' = Emitted(failed) /\ escaped' = "none"
                /\ UNCHANGED <<remote, archive>>
           ELSE IF fault = "interrupt"
           THEN /\ sftpOps' = stat /\ log' = {} /\ escaped' = "KeyboardInterrupt"
                /\ UNCHANGED <<remote, archive>>
           ELSE IF fault = "stat" /\ ~absent
           THEN /\ sftpOps' = stat /\ log' = Emitted(failed) /\ escaped' = "none"
                /\ UNCHANGED <<remote, archive>>
           ELSE IF absent /\ fault = "mkdir"
           THEN /\ sftpOps' = checked /\ log' = Emitted(failed) /\ escaped' = "none"
                /\ UNCHANGED <<remote, archive>>
           ELSE IF fault = "chdir"
           THEN /\ sftpOps' = checked \o <<SftpOp("chdir", NoPath)>>
                /\ log' = Emitted(made \cup failed) /\ escaped' = "none"
                /\ archive' = ensured
                /\ UNCHANGED remote
           ELSE IF fault = "listdir"
           THEN /\ sftpOps' = checked \o <<SftpOp("chdir", NoPath), SftpOp("listdir", NoPath)>>
                /\ log' = Emitted(made \cup failed) /\ escaped' = "none"
                /\ archive' = ensured
                /\ UNCHANGED remote
           ELSE /\ sftpOps' = checked
                       \o <<SftpOp("chdir", NoPath), SftpOp("listdir", NoPath)>>
                       \o renames
                /\ log' = Emitted(made \cup (IF RenameRaises(fault, wavs) THEN failed
                                             ELSE {L("info", "archived")}))
                /\ escaped' = "none"
                /\ archive' = [exists |-> TRUE, files |-> archive.files \cup moved]
                /\ remote' = [f \in DOMAIN remote \ moved |-> remote[f]]
        /\ UNCHANGED <<config, request, recordings, transcripts, summaries>>

StageArchive(fault, listing) ==
    /\ op = "none"
    /\ downloadFault' = fault
    /\ ArchiveRemoteRecordings(fault, listing)
    /\ UNCHANGED <<sessionVars, envVars, pc, run, connectResult, wav_path, exc,
                   raised, outcome, trace, calls, arg>>

StageTranscribe(path, result, fault) ==
    /\ op = "none"
    /\ arg' = PathValue(path)
    /\ engine' = result
    /\ downloadFault' = fault
    /\ TranscribeWav(path, result, fault)
    /\ UNCHANGED <<sessionVars, cleanup, log_level, api, pc, run, connectResult,
                   wav_path, exc, raised, outcome, trace, calls>>

ShortTranscripts == {TextOfLength(0), TextOfLength(1)}

StageSummarize(transcript, response, interrupted) ==
    /\ op = "none"
    /\ arg' = RunsValue(transcript)
    /\ api' = response
    /\ downloadFault' = IF interrupted THEN "interrupt" ELSE "none"
    /\ GenerateSummary(transcript, response, interrupted)
    /\ UNCHANGED <<sessionVars, cleanup, log_level, engine, pc, run, connectResult,
                   wav_path, exc, raised, outcome, trace, calls>>

\* What open(summary_path, 'w') leaves of the file's old content.
OpenedForWriting(old) == ""

SaveFaults == {"none", "open", "write", "interrupt"}
SummaryTexts == {"S1", "S2"}

\* What a write that raises can have put into the file: nothing, or a
\* beginning of the text short of the whole.
Pieces == {"", "S", "1", "2", "S1", "S2"}
Beginnings(text) == {b \in Pieces : \E rest \in Pieces \ {""} : b \o rest = text}

\* save_summary(summary).  fault names the step that raises: open(), or
\* the write (f.write(), or the flush as the file is closed) once the file
\* has been opened, which leaves the beginning cut of the summary in the
\* file; "interrupt" is open() interrupted (KeyboardInterrupt).  A file's
\* content is a string; "S1S2" is "S1" followed by "S2".
SaveSummary(summary, fault, cut) ==
    LET path == SummaryFile(Today)
        old == IF path \in DOMAIN summaries THEN summaries[path] ELSE ""
        failed == {L("error", "saving_summary_error"), L("debug", "traceback")}
        written(content) == [f \in DOMAIN summaries \cup {path} |->
                                IF f = path THEN content ELSE summaries[f]]
    IN  /\ op' = "save_summary"
        /\ ret' = <<>>
        /\ sftpOps' = <<>>
        /\ request' = <<>>
        /\ escaped' = IF fault = "interrupt" THEN "KeyboardInterrupt" ELSE "none"
        /\ IF fault = "interrupt"
           THEN /\ log' = {}
                /\ UNCHANGED summaries
           ELSE IF fault = "open"
           THEN /\ log' = Emitted(failed)
                /\ UNCHANGED summaries
           ELSE IF fault = "write"
           THEN /\ log' = Emitted(failed)
                /\ summaries' = written(OpenedForWriting(old) \o cut)
           ELSE /\ log' = Emitted({L("info", "summary_saved")})
                /\ summaries' = written(OpenedForWriting(old) \o summary)
        /\ before' = Snapshot(remote, archive, summaries)
        /\ UNCHANGED <<config, archive, remote, recordings, transcripts>>

StageSave(summary, fault, cut) ==
    /\ op = "none"
    /\ arg' = SummaryValue(summary)
    /\ downloadFault' = fault
    /\ SaveSummary(summary, fault, cut)
    /\ UNCHANGED workflowVars

\* Directories the stage methods are called on.
StageRemotes ==
    {d \in Remotes : \A f \in DOMAIN d : d[f] = 1 \/ f = FileName("b", "wav")}
StageArchives ==
    {NoArchive, [exists |-> TRUE, files |-> {}],
     [exists |-> TRUE, files |-> {FileName("z", "wav")}]}

\* A constructed workflow, with or without an open session and with or
\* without a summary saved earlier today, before one stage method is called.
InitStages ==
    /\ pc = "idle"
    /\ run = 0
    /\ cleanup \in BOOLEAN
    /\ log_level \in LogLevels
    /\ \/ /\ ssh_client = None /\ sftp_client = None
          /\ sshOpen = {} /\ sftpOpen = {}
          /\ connectResult = "none"
       \/ /\ ssh_client = 1 /\ sftp_client = 1
          /\ sshOpen = {1} /\ sftpOpen = {1}
          /\ connectResult = "ok"
    /\ sshCloseCount = [h \in Handles |-> 0]
    /\ sftpCloseCount = [h \in Handles |-> 0]
    /\ closes = <<>>
    /\ finalized = 0
    /\ remote \in StageRemotes
    /\ recordings = {}
    /\ transcripts = NoFiles
    /\ summaries \in {NoFiles, [f \in {SummaryFile(Today)} |-> "S0"]}
    /\ engine \in {e \in EngineBehaviours : e.raises}
    /\ api \in {a \in ApiBehaviours : a.fault}
    /\ downloadFault = "none"
    /\ wav_path = NoPath
    /\ exc = "none"
    /\ raised = "none"
    /\ outcome = "none"
    /\ log = {}
    /\ trace = <<>>
    /\ calls = <<>>
    /\ config = NoFiles
    /\ archive \in StageArchives
    /\ arg = NoValue
    /\ before = Snapshot(remote, archive, summaries)
    /\ NoStageCall

NextStages ==
    \/ \E r \in ConnectOutcomes : StageConnect(r)
    \/ \E f \in DownloadFaults, l \in ListingOrders(remote) : StageDownload(f, l)
    \/ \E f \in ArchiveFaults, l \in ListingOrders(remote) : StageArchive(f, l)
    \/ \E r \in EngineBehaviours, f \in TranscribeFaults :
           StageTranscribe(FileName("a", "wav"), r, f)
    \/ \E t \in ShortTranscripts, r \in ApiBehaviours \cup {RedirectLoop},
          i \in BOOLEAN :
           StageSummarize(t, r, i)
    \/ \E t \in SummaryTexts, f \in SaveFaults :
           \E cut \in Beginnings(t) : StageSave(t, f, cut)

SpecStages == InitStages /\ [][NextStages]_vars

\* ------------------------------------------------------------------ claims
Returned == pc = "returned"
\* The session was opened in this run: SSH connected and SFTP channel created.
Opened == connectResult = "ok"
ConnectFailed == connectResult \in {"key_error", "connect_error", "sftp_error"}
Downloaded == wav_path # NoPath
HasLevel(level) == \E r \in log : r[1] = level
\* The logger's threshold lets records of the level through.
Admits(level) == IsEnabledFor(level, log_level)
\* The stage was interrupted: an exception outside the Exception hierarchy.
Interrupted == raised \in NotExceptions
\* close() invocations of this run on handle h of the given kind.
CloseCalls(kind, h) ==
    Cardinality({i \in DOMAIN closes : closes[i].kind = kind /\ closes[i].handle = h})
Invoked(kind) == \E i \in DOMAIN closes : closes[i].kind = kind
CloseRaised(kind) == \E i \in DOMAIN closes : closes[i].kind = kind /\ ~closes[i].ok
Count(seq, x) == Cardinality({i \in DOMAIN seq : seq[i] = x})
Called(m) == Count(calls, m) > 0
\* m1 is invoked, and later m2.
CalledThen(m1, m2) ==
    \E i, j \in DOMAIN calls : i < j /\ calls[i] = m1 /\ calls[j] = m2
NoWavInRemote == \A f \in DOMAIN remote : ~EndsWithWav(f)
ListingWorked == downloadFault \notin {"chdir", "listdir", "interrupt"}
\* The endpoint answers with a first content block of non-empty text.
ApiGivesText ==
    /\ ~api.fault /\ api.status = 200 /\ api.hasContent
    /\ Len(api.content) > 0 /\ api.content[1].text # ""
TranscriptsWritten(stem) ==
    /\ {TranscriptJson(stem), TranscriptTxt(stem)} \subseteq DOMAIN transcripts
    /\ transcripts[TranscriptJson(stem)].whole
    /\ transcripts[TranscriptTxt(stem)].whole

\* C1: when run_workflow returns from a run that opened the session, the
\* finally block has run exactly once and has invoked close() exactly once
\* on the SFTP channel of that run; the SSH client's close() is invoked at
\* most once, and exactly once when the SFTP close() returned.
C1_ClosedExactlyOnce ==
    (Returned /\ Opened) =>
        /\ finalized = 1
        /\ CloseCalls("sftp", run) = 1
        /\ sftpCloseCount[run] = 1
        /\ CloseCalls("ssh", run) <= 1
        /\ (~CloseRaised("sftp") => CloseCalls("ssh", run) = 1)

\* C1 witness: a run that opened the session, met an unexpected exception
\* and returned with the SFTP channel closed.
C1_Witness ==
    /\ Returned /\ Opened /\ raised = "AttributeError"
    /\ CloseCalls("sftp", run) = 1 /\ run \notin sftpOpen

\* C2 as claimed: a run invokes close() if and only if it opened the session.
C2_CloseIffOpened == Returned => (closes # <<>> <=> Opened)

\* C2 amended: finalization invokes the SFTP close() if and only if
\* self.sftp_client is set, and the SSH client's close() in every run, also
\* after a failed connect, unless the SFTP close() raised.
C2_CloseIffHandleSet ==
    Returned =>
        /\ Invoked("sftp") <=> sftp_client # None
        /\ Invoked("ssh") <=> ~CloseRaised("sftp")
        /\ (ConnectFailed /\ sftp_client = None =>
                closes = <<Close("ssh", run, closes[1].ok)>>)

\* C2 witness: the key could not be loaded, and the run still closed the
\* SSH client it had constructed.
C2_Witness ==
    /\ Returned /\ connectResult = "key_error"
    /\ CloseCalls("ssh", run) = 1 /\ ~Invoked("sftp")

\* C3 as claimed: with cleanup unset, a downloaded recording, a non-empty
\* segment list and a non-empty summary text, the run passes FETCHED,
\* TRANSCRIBED, SUMMARIZED and SAVED before CLOSED and leaves the recording,
\* both transcript files and the summary file holding the summary text.
C3_FullRunSaves ==
    (Returned /\ Opened /\ Downloaded /\ ~cleanup
        /\ ~engine.raises /\ engine.segments # <<>> /\ ApiGivesText) =>
        /\ trace = <<"INIT", "CONNECTED", "FETCHED", "TRANSCRIBED",
                     "SUMMARIZED", "SAVED", "CLOSED">>
        /\ wav_path \in recordings
        /\ TranscriptsWritten(PathStem(wav_path))
        /\ SummaryFile(Today) \in DOMAIN summaries
        /\ summaries[SummaryFile(Today)] = api.content[1].text

\* C4 as claimed: a failed connect takes the run from INIT to CLOSED with no
\* further stage, and the failure reaches the caller of run_workflow.
C4_ConnectFailurePropagates ==
    (Returned /\ ConnectFailed) =>
        /\ trace = <<"INIT", "CLOSED">>
        /\ calls = <<"connect_to_remote">>
        /\ outcome = "raised"

\* C4 amended: a failed connect takes the run from INIT to CLOSED with no
\* further stage; connect_to_remote logs an error, written unless the
\* threshold is above error level, and re-raises into run_workflow, which
\* logs a critical record and returns normally.
C4_ConnectFailureContained ==
    (Returned /\ ConnectFailed) =>
        /\ trace = <<"INIT", "CLOSED">>
        /\ calls = <<"connect_to_remote">>
        /\ raised = "ConnectError"
        /\ L("error", "ssh_connection_error") \in log <=> Admits("error")
        /\ L("critical", "workflow_error") \in log
        /\ outcome = "normal"

\* C4 witness: the SSH connect call failed and the run has returned.
C4_Witness ==
    /\ Returned /\ connectResult = "connect_error"
    /\ trace = <<"INIT", "CLOSED">>

\* C5 as claimed: whenever a stage raises into run_workflow, the run still
\* ends with a critical record logged, the finally block executed once, no
\* exception in flight and a normal return.
C5_ExceptionsContained ==
    Returned =>
        /\ outcome = "normal"
        /\ exc = "none"
        /\ finalized = 1
        /\ (raised # "none" => HasLevel("critical"))

\* C5 amended: the finally block is executed once in every run; when a
\* stage raises an exception that derives from Exception the run ends with
\* a critical record logged, no exception in flight and a normal return;
\* when a stage is interrupted by an exception outside that hierarchy
\* (KeyboardInterrupt, SystemExit) no critical record is logged and the
\* exception leaves run_workflow after the finally block.
C5_ExceptionSubclassesContained ==
    Returned =>
        /\ finalized = 1
        /\ ~Interrupted =>
              /\ outcome = "normal"
              /\ exc = "none"
              /\ (raised # "none" => HasLevel("critical"))
        /\ Interrupted =>
              /\ outcome = "raised"
              /\ exc = raised
              /\ ~HasLevel("critical")

\* C5 witness: the stage after the download raised and the run returned.
C5_Witness ==
    /\ Returned /\ raised = "AttributeError" /\ Downloaded
    /\ HasLevel("critical") /\ outcome = "normal"

\* What C6 says of a run that connected and listed a directory without
\* audio files, apart from the log.
C6_SoftExit ==
    /\ wav_path = NoPath
    /\ trace = <<"INIT", "CONNECTED", "CLOSED">>
    /\ calls = <<"connect_to_remote", "download_latest_wav">>
    /\ raised = "none"
    /\ outcome = "normal"
    /\ CloseCalls("sftp", run) = 1

\* C6 as claimed: such a run exits softly and logs no error-level and no
\* critical-level record.
C6_NoFileNoError ==
    (Returned /\ Opened /\ NoWavInRemote /\ ListingWorked) =>
        /\ C6_SoftExit
        /\ L("warning", "no_wav_files") \in log
        /\ ~HasLevel("error")
        /\ ~HasLevel("critical")

\* C6 amended: such a run exits softly, with the warning written if and
\* only if the threshold admits warnings, and logs no critical-level
\* record; the only error-level record it can log is the finally block's,
\* written if and only if a close() call raised and the threshold admits
\* errors.
C6_NoFileNoStageError ==
    (Returned /\ Opened /\ NoWavInRemote /\ ListingWorked) =>
        /\ C6_SoftExit
        /\ L("warning", "no_wav_files") \in log <=> Admits("warning")
        /\ ~HasLevel("critical")
        /\ \A r \in log : r[1] = "error" => r = L("error", "closing_error")
        /\ L("error", "closing_error") \in log
              <=> ((CloseRaised("sftp") \/ CloseRaised("ssh")) /\ Admits("error"))

\* C6 witness: the remote directory held only a non-audio file, and the run
\* has returned after the warning.
C6_Witness ==
    /\ Returned /\ Opened /\ ListingWorked
    /\ DOMAIN remote = {FileName("n", "txt")}
    /\ L("warning", "no_wav_files") \in log
    /\ ~HasLevel("error")

\* C7 as claimed: with cleanup set and a recording downloaded, the archive
\* step is executed and transcription is invoked after it.
C7_ArchiveThenTranscribe ==
    (Returned /\ cleanup /\ Downloaded) =>
        CalledThen("archive_remote_recordings", "transcribe_wav")

\* C8 as claimed: when the engine fails on the downloaded recording,
\* transcription is attempted, the run exits softly without summarizing,
\* without a critical record, and the recording stays on disk.
C8_TranscriptionFailureSoft ==
    (Returned /\ Downloaded /\ engine.raises) =>
        /\ Called("transcribe_wav")
        /\ ~Called("generate_summary")
        /\ ~Called("save_summary")
        /\ ~HasLevel("critical")
        /\ raised = "none"
        /\ wav_path \in recordings

\* C9 as claimed: when the engine succeeds on the downloaded recording, with
\* any segment sequence, both transcript files are written and summarize is
\* invoked exactly once.
C9_TranscribedThenSummarize ==
    (Returned /\ Downloaded /\ ~engine.raises) =>
        /\ TranscriptsWritten(PathStem(wav_path))
        /\ Count(calls, "generate_summary") = 1

\* C10 as claimed: when the transcript is produced and the endpoint yields
\* no summary text, summarize is attempted, no summary is saved, a warning
\* is logged and recording and transcripts stay on disk.
C10_NoSummarySoft ==
    (Returned /\ Downloaded /\ ~engine.raises /\ engine.segments # <<>>
        /\ ~ApiGivesText) =>
        /\ Called("generate_summary")
        /\ ~Called("save_summary")
        /\ L("warning", "summary_failed") \in log
        /\ wav_path \in recordings
        /\ TranscriptsWritten(PathStem(wav_path))
\* The audio files of a directory, and whether f is its only newest one.
WavsOf(dir) == {f \in DOMAIN dir : EndsWithWav(f)}
NewestIn(f, dir) == \A g \in WavsOf(dir) : dir[g] <= dir[f]
OnlyNewestIn(f, dir) == \A g \in WavsOf(dir) \ {f} : dir[g] < dir[f]
SelectedForEveryOrder(f, dir) ==
    \A l \in ListingOrders(dir) : LatestWav(WavFiles(l), dir) = f

\* The example: mtimes {A:10, B:30, C:20}, listed in each of the six orders.
ExampleNames == {FileName("A", "wav"), FileName("B", "wav"), FileName("C", "wav")}
ExampleDir == [f \in ExampleNames |->
                 IF f.stem = "A" THEN 10 ELSE IF f.stem = "B" THEN 30 ELSE 20]
ExampleSelectsB == SelectedForEveryOrder(FileName("B", "wav"), ExampleDir)

\* C14 as claimed: the downloaded file is an audio file of maximum mtime,
\* it is the one selected for every ordering of the listing, and it is
\* stored under the same name in recordings/.
C14_NewestForEveryOrder ==
    (Returned /\ Downloaded) =>
        /\ wav_path \in WavsOf(remote)
        /\ NewestIn(wav_path, remote)
        /\ SelectedForEveryOrder(wav_path, remote)
        /\ wav_path \in recordings
        /\ ExampleSelectsB

\* C14 amended: the downloaded file is an audio file of maximum mtime and
\* is stored under the same name in recordings/; it is the one selected for
\* every ordering of the listing when no other audio file shares its mtime
\* (among files tied for the maximum the first listed is taken); the
\* example's B is selected for every ordering.
C14_NewestUnlessTied ==
    (Returned /\ Downloaded) =>
        /\ wav_path \in WavsOf(remote)
        /\ NewestIn(wav_path, remote)
        /\ (OnlyNewestIn(wav_path, remote) =>
                SelectedForEveryOrder(wav_path, remote))
        /\ wav_path \in recordings
        /\ ExampleSelectsB

\* C14 witness: b.wav is newer than a.wav and b.wav was downloaded.
C14_Witness ==
    /\ Returned /\ Downloaded
    /\ WavsOf(remote) = {FileName("a", "wav"), FileName("b", "wav")}
    /\ remote[FileName("a", "wav")] < remote[FileName("b", "wav")]
    /\ wav_path = FileName("b", "wav") /\ wav_path \in recordings

\* The stages in the order run_workflow names them.
StageOrder == <<"connect_to_remote", "download_latest_wav",
                "archive_remote_recordings", "transcribe_wav",
                "generate_summary", "save_summary">>
StagePos(m) == CHOOSE i \in DOMAIN StageOrder : StageOrder[i] = m

\* The stages a run that downloaded the recording is to execute, in order:
\* archive when cleanup is set, transcription, summarization when the
\* engine returns segments, and the save when the endpoint gives a text.
StagesDue ==
    <<"connect_to_remote", "download_latest_wav">>
        \o (IF cleanup THEN <<"archive_remote_recordings">> ELSE <<>>)
        \o <<"transcribe_wav">>
        \o (IF ~engine.raises /\ engine.segments # <<>>
            THEN <<"generate_summary">>
                     \o (IF ApiGivesText THEN <<"save_summary">> ELSE <<>>)
            ELSE <<>>)

\* What C17 says no run does: a stage invoked out of the order connect,
\* fetch, archive, transcribe, summarize, save or more than once,
\* transcription invoked without the recording downloaded, summarization
\* invoked without both transcript files written.
C17_NothingOutOfOrder ==
    /\ \A i \in DOMAIN calls : calls[i] \in {StageOrder[k] : k \in DOMAIN StageOrder}
    /\ \A i, j \in DOMAIN calls : i < j => StagePos(calls[i]) < StagePos(calls[j])
    /\ (Called("download_latest_wav") => Opened)
    /\ (Called("transcribe_wav") => (Downloaded /\ wav_path \in recordings))
    /\ (Called("generate_summary") =>
            (Downloaded /\ TranscriptsWritten(PathStem(wav_path))))

Summarized == op = "generate_summary"
IsSuccessStatus(status) == 200 <= status /\ status < 300
HasBlocks(response) == response.hasContent /\ Len(response.content) > 0
SentContent == request[1].messages[1].content
LoggedAt(level, tag) == L(level, tag) \in log
ErrorLogged == HasLevel("error")

\* C11 as claimed: the text of the first block is returned exactly when the
\* status is a success (2xx) and the content array is present and non-empty,
\* whatever the further blocks are; None is returned in every other case.
C11_OneSuccessPath ==
    Summarized =>
        IF ~api.fault /\ IsSuccessStatus(api.status) /\ HasBlocks(api)
        THEN /\ "text" \in DOMAIN api.content[1]
             /\ ret = <<SummaryValue(api.content[1].text)>>
        ELSE ret = <<>>

\* C11 amended: unless the request is interrupted, the call returns: the
\* text of the first block exactly when the request met no network fault,
\* the status is not a 4xx or 5xx, the content array is present and
\* non-empty and its first block has a text, whatever the further blocks
\* are, and None in every other case, with an error record written unless
\* the threshold is above error level.  An interrupted request
\* (KeyboardInterrupt, SystemExit) leaves the call as an exception.
C11_OneSuccessPathNot4xx5xx ==
    Summarized =>
        IF downloadFault = "interrupt"
        THEN escaped = "KeyboardInterrupt" /\ ret = <<>> /\ ~ErrorLogged
        ELSE /\ escaped = "none"
             /\ IF /\ ~api.fault /\ ~(400 <= api.status /\ api.status < 600)
                   /\ HasBlocks(api) /\ "text" \in DOMAIN api.content[1]
                THEN ret = <<SummaryValue(api.content[1].text)>> /\ ~ErrorLogged
                ELSE ret = <<>> /\ (ErrorLogged <=> Admits("error"))

\* C11 witness: a 200 response with two text blocks; the first was returned.
C11_Witness ==
    /\ Summarized /\ api.status = 200 /\ ~api.fault
    /\ api.content = <<TextBlock("Incident 1"), TextBlock("Incident 2")>>
    /\ ret = <<SummaryValue("Incident 1")>>

TemperatureGiven == "temperature" \in DOMAIN config
\* What is posted when the configuration names no temperature.
PayloadUnspecified(content) == Payload(content, ConfigGet(NoFiles, "temperature", DefaultTemperature))

\* C12 as claimed: the payload has a temperature field if and only if the
\* configured temperature differs from 0.7, and with 0.7 configured the
\* payload is the one sent with no temperature configured.
C12_TemperatureIffNonDefault ==
    Summarized =>
        /\ ("temperature" \in DOMAIN request[1]) <=>
               (TemperatureGiven /\ config["temperature"] # DefaultTemperature)
        /\ (TemperatureGiven /\ config["temperature"] = DefaultTemperature) =>
               request[1] = PayloadUnspecified(SentContent)

\* C12 amended: the payload always has a temperature field; it holds the
\* configured temperature, or 0.7 when none is configured, so with 0.7
\* configured the payload is the one sent with no temperature configured.
C12_TemperatureAlwaysSent ==
    Summarized =>
        /\ "temperature" \in DOMAIN request[1]
        /\ request[1].temperature =
               (IF TemperatureGiven THEN config["temperature"] ELSE DefaultTemperature)
        /\ (TemperatureGiven /\ config["temperature"] = DefaultTemperature) =>
               request[1] = PayloadUnspecified(SentContent)

\* C12 witness: 0.7 is configured and the payload posted carries 0.7.
C12_Witness ==
    /\ Summarized /\ TemperatureGiven /\ config["temperature"] = DefaultTemperature
    /\ "temperature" \in DOMAIN request[1]
    /\ request[1].temperature = DefaultTemperature

\* s[m:] for m >= 0, and a text with adjacent runs of one character merged.
RECURSIVE Drop(_, _)
Drop(t, m) ==
    IF t = <<>> \/ m = 0 THEN t
    ELSE IF t[1].n <= m THEN Drop(Tail(t), m - t[1].n)
    ELSE <<Run(t[1].ch, t[1].n - m)>> \o Tail(t)
RECURSIVE Merged(_)
Merged(t) ==
    IF Len(t) < 2 THEN t
    ELSE IF t[1].ch = t[2].ch
         THEN Merged(<<Run(t[1].ch, t[1].n + t[2].n)>> \o Tail(Tail(t)))
         ELSE <<t[1]>> \o Merged(Tail(t))
IsPrefixOf(s, t) == Merged(s \o Drop(t, Length(s))) = Merged(t)
Min(a, b) == IF a <= b THEN a ELSE b

\* What C13 says of the content sent: it is the first min(length, 100000)
\* characters of the transcript; a transcript of 100001 characters is cut
\* to 100000 and one of at most 100000 is sent unchanged.
C13_ContentSent ==
    /\ Len(request) = 1 /\ Len(request[1].messages) = 1
    /\ request[1].messages[1].role = "user"
    /\ Length(SentContent) = Min(Length(arg.runs), 100000)
    /\ IsPrefixOf(SentContent, arg.runs)
    /\ (Length(arg.runs) = 100001 => Length(SentContent) = 100000)
    /\ (Length(arg.runs) <= 100000 => SentContent = arg.runs)

\* C13 as claimed: the content sent is as said, and the truncation warning
\* is logged if and only if the transcript is longer than 100000.
C13_TruncatedToLimit ==
    Summarized =>
        /\ C13_ContentSent
        /\ LoggedAt("warning", "truncating_transcript") <=> Length(arg.runs) > 100000

\* C13 amended: the content sent is as said, and the truncation warning is
\* written if and only if the transcript is longer than 100000 and the
\* logger's threshold admits warnings.
C13_TruncatedWarnsIfAdmitted ==
    Summarized =>
        /\ C13_ContentSent
        /\ LoggedAt("warning", "truncating_transcript")
              <=> (Length(arg.runs) > 100000 /\ Admits("warning"))

\* C13 witness: a transcript of 100001 characters was cut to 100000 and the
\* warning logged.
C13_Witness ==
    /\ Summarized /\ Length(arg.runs) = MaxTranscriptLength + 1
    /\ Length(SentContent) = MaxTranscriptLength
    /\ LoggedAt("warning", "truncating_transcript")
\* ------------------------------------------------------- transcribe_wav claims
Transcribed == op = "transcribe_wav" /\ ret # <<>>

\* The lines of a text, each without its closing "\n".
RECURSIVE Lines(_, _)
Lines(str, line) ==
    IF str = <<>> THEN (IF line = <<>> THEN <<>> ELSE <<line>>)
    ELSE IF Head(str) = "\n" THEN <<line>> \o Lines(Tail(str), <<>>)
    ELSE Lines(Tail(str), Append(line, Head(str)))
IndexOf(str, c) == CHOOSE i \in 1..(Len(str) + 1) :
                       /\ (i <= Len(str) => str[i] = c)
                       /\ \A j \in 1..(i - 1) : str[j] # c
DigitChars == {Digit(d) : d \in 0..9}
AllDigits(str) == \A i \in 1..Len(str) : str[i] \in DigitChars
DigitValue(c) == CHOOSE d \in 0..9 : Digit(d) = c
RECURSIVE Value(_)
Value(str) ==
    IF str = <<>> THEN 0
    ELSE 10 * Value(SubSeq(str, 1, Len(str) - 1)) + DigitValue(str[Len(str)])

\* ts reads MM:SS.mmm for a time of ticks: MM is floor(s/60) in at least two
\* digits with no zero added beyond the second, SS.mmm is six characters,
\* two digits, a point and three digits, giving a millisecond nearest to
\* the remainder s mod 60 (either neighbour of a remainder halfway).
ReadsAs(ts, ticks) ==
    LET k == IndexOf(ts, ":")
        mm == SubSeq(ts, 1, k - 1)
        ss == SubSeq(ts, k + 1, Len(ts))
        remainder == ticks % (60 * 10000)
    IN  /\ k <= Len(ts)
        /\ Len(mm) >= 2 /\ AllDigits(mm)
        /\ Value(mm) = ticks \div (60 * 10000)
        /\ (Len(mm) > 2 => mm[1] # "0")
        /\ Len(ss) = 6 /\ ss[3] = "."
        /\ AllDigits(SubSeq(ss, 1, 2)) /\ AllDigits(SubSeq(ss, 4, 6))
        /\ LET millis == 1000 * Value(SubSeq(ss, 1, 2)) + Value(SubSeq(ss, 4, 6))
           IN  /\ 10 * millis - remainder <= 5
               /\ remainder - 10 * millis <= 5

\* line reads "[MM:SS.mmm --> MM:SS.mmm]  <text>" for the segment.
LineReadsAs(line, seg) ==
    LET i == IndexOf(line, " ")
        j == IndexOf(line, "]")
    IN  /\ j <= Len(line) /\ i + 5 < j
        /\ line[1] = "["
        /\ ReadsAs(SubSeq(line, 2, i - 1), seg.start)
        /\ SubSeq(line, i, i + 4) = <<" ", "-", "-", ">", " ">>
        /\ ReadsAs(SubSeq(line, i + 5, j - 1), seg.end)
        /\ SubSeq(line, j + 1, Len(line)) = <<" ", " ">> \o Strip(seg.text)

ExamplePrefix ==
    <<"[", "0", "1", ":", "0", "3", ".", "2", "5", "0", " ", "-", "-", ">", " ",
      "0", "2", ":", "0", "5", ".", "0", "0", "0", "]">>

\* C15: the transcript returned and written holds one line per segment, in
\* the engine's order, each reading "[MM:SS.mmm --> MM:SS.mmm]  <text>"
\* with MM = floor(s/60) zero-padded to width 2 and SS.mmm the remainder
\* s mod 60 to 3 decimals zero-padded to width 6; a segment from 63.25 s to
\* 125.0 s renders the prefix [01:03.250 --> 02:05.000].
C15_SegmentLines ==
    Transcribed =>
        LET lines == Lines(ret[1].chars, <<>>)
        IN  /\ transcripts[TranscriptTxt(PathStem(arg.path))] = FileWritten(ret[1].chars)
            /\ Len(lines) = Len(engine.segments)
            /\ (ret[1].chars # <<>> => ret[1].chars[Len(ret[1].chars)] = "\n")
            /\ \A n \in 1..Len(lines) : LineReadsAs(lines[n], engine.segments[n])
            /\ \A n \in 1..Len(lines) :
                   (engine.segments[n].start = 632500
                        /\ engine.segments[n].end = 1250000) =>
                       SubSeq(lines[n], 1, Len(ExamplePrefix)) = ExamplePrefix

\* C15 witness: two segments, the second from 63.25 s to 125.0 s, were
\* rendered as two lines.
C15_Witness ==
    /\ Transcribed
    /\ Len(engine.segments) = 2
    /\ engine.segments[1].start = 4 /\ engine.segments[1].end = 599996
    /\ engine.segments[2].start = 632500 /\ engine.segments[2].end = 1250000
    /\ Len(Lines(ret[1].chars, <<>>)) = 2
    /\ SubSeq(Lines(ret[1].chars, <<>>)[2], 1, Len(ExamplePrefix)) = ExamplePrefix
\* ------------------------------------------------------- stage method claims
Saved == op = "save_summary" /\ downloadFault = "none"

\* C16: there is at most one summary file for the date; after a save that
\* completed it holds exactly the summary saved, whatever it held before;
\* a call that did not complete a save leaves the summary files as they
\* were.
C16_OneSummaryPerDate ==
    /\ DOMAIN summaries \subseteq {SummaryFile(Today)}
    /\ (Saved => summaries[SummaryFile(Today)] = arg.summary)
    /\ (~Saved => summaries = before.summaries)

Archived == op = "archive_remote_recordings"
Issued(name) == \E i \in DOMAIN sftpOps : sftpOps[i].name = name
RenamedFiles == {sftpOps[i].file : i \in {j \in DOMAIN sftpOps : sftpOps[j].name = "rename"}}

\* C18 as claimed: no stage method lets an exception leave it.
C18_NoStageRaises == op # "none" => escaped = "none"

\* C18 amended: an exception that derives from Exception leaves a stage
\* method exactly when the method is connect_to_remote and the connection
\* failed; download, transcription and summarization return None whenever
\* they log an error, and archive and save_summary return nothing in any
\* case.  The only other exception to leave a stage method is the one that
\* interrupted it (KeyboardInterrupt, SystemExit), which no stage handles.
C18_OnlyConnectRaises ==
    op # "none" =>
        /\ escaped = "ConnectError" <=> (op = "connect_to_remote" /\ ConnectFailed)
        /\ escaped \in {"none", "ConnectError"} \cup NotExceptions
        /\ escaped \in NotExceptions =>
              (connectResult = "interrupted" \/ downloadFault = "interrupt")
        /\ (op \in {"download_latest_wav", "transcribe_wav", "generate_summary"}
                /\ ErrorLogged) => ret = <<>>
        /\ op \in {"archive_remote_recordings", "save_summary"} => ret = <<>>

\* C18 witness: connect_to_remote failed and its exception left the method.
C18_Witness ==
    /\ op = "connect_to_remote" /\ ConnectFailed
    /\ escaped = "ConnectError" /\ ErrorLogged

\* A call the archive method made raised: the existence check, chdir and
\* listdir are always made, mkdir when the directory is absent, and a
\* rename for each .wav file.
ArchiveCallRaised ==
    \/ downloadFault \in {"stat", "chdir", "listdir", "interrupt"}
    \/ downloadFault = "mkdir" /\ ~before.archive.exists
    \/ downloadFault = "rename1" /\ Cardinality(WavsOf(before.remote)) >= 1
    \/ downloadFault = "rename2" /\ Cardinality(WavsOf(before.remote)) >= 2

\* C19: after an archive call with cleanup set in which no call raised, no
\* error is logged, the archive directory exists, every .wav file of the
\* remote directory is in it under its name and no longer in the remote
\* directory, every other file is where it was, and mkdir was issued
\* exactly when the directory was absent; when the existence check fails
\* otherwise than by "not found", no mkdir is issued and nothing is moved.
C19_ArchiveRelocates ==
    (Archived /\ cleanup /\ sftp_client # None) =>
        /\ ErrorLogged => ArchiveCallRaised
        /\ ~ArchiveCallRaised =>
              /\ archive.exists
              /\ \A f \in WavsOf(before.remote) :
                     f \in archive.files /\ f \notin DOMAIN remote
              /\ RenamedFiles = WavsOf(before.remote)
              /\ \A f \in DOMAIN before.remote \ WavsOf(before.remote) :
                     /\ f \in DOMAIN remote /\ remote[f] = before.remote[f]
                     /\ f \notin archive.files
              /\ before.archive.files \subseteq archive.files
              /\ Issued("mkdir") <=> ~before.archive.exists
        /\ Issued("mkdir") => ~before.archive.exists
        /\ downloadFault \in {"stat", "interrupt"} =>
              /\ ~Issued("mkdir") /\ ~Issued("rename")
              /\ archive = before.archive /\ remote = before.remote

\* C19 witness: the archive directory was absent, it was created, and a.wav
\* and b.wav were moved into it while n.txt stayed.
C19_Witness ==
    /\ Archived /\ cleanup /\ ~ArchiveCallRaised /\ ~ErrorLogged
    /\ ~before.archive.exists /\ Issued("mkdir")
    /\ WavsOf(before.remote) = {FileName("a", "wav"), FileName("b", "wav")}
    /\ DOMAIN remote = {FileName("n", "txt")}
    /\ archive.files = {FileName("a", "wav"), FileName("b", "wav")}

\* C20: with cleanup unset an archive call issues no SFTP request and logs
\* nothing, and after any stage method the remote directory and the archive
\* directory are as they were: nothing is created, renamed or moved.
C20_NoCleanupNoArchive ==
    ~cleanup =>
        /\ Archived => (sftpOps = <<>> /\ log = {})
        /\ ~Issued("mkdir") /\ ~Issued("rename")
        /\ remote = before.remote /\ archive = before.archive

\* C20 witness: archive was called on an open session with cleanup unset
\* and .wav files in the remote directory, and issued nothing.
C20_Witness ==
    /\ Archived /\ ~cleanup /\ sftp_client # None
    /\ WavsOf(remote) = {FileName("a", "wav"), FileName("b", "wav")}
    /\ ~archive.exists /\ sftpOps = <<>>
\* ------------------------------------------------------- finalization claims
\* C21: when run_workflow returns from a run that opened the session,
\* close() has been invoked on that run's SFTP channel and on that run's
\* SSH client, also when the SFTP channel's close() raised.
C21_BothClosed ==
    (Returned /\ Opened) =>
        /\ CloseCalls("sftp", run) = 1
        /\ CloseCalls("ssh", run) = 1

\* C22: every close() a run's finalization invokes is on a handle opened in
\* that run, and over all runs no handle has close() invoked on it more
\* than once.
C22_ClosesOwnHandlesOnce ==
    /\ \A i \in DOMAIN closes : closes[i].handle = run
    /\ \A h \in Handles : sftpCloseCount[h] <= 1 /\ sshCloseCount[h] <= 1
====
